---- MODULE Spec2Model ----
(***************************************************************************)
(* The client-side orchestration of the financial-statement dashboard:     *)
(* the application state Store held by AppProvider and the Coordinator     *)
(* operations loadCompanies, selectCompany, selectYear and uploadFile of   *)
(* client/src/context/AppContext.tsx, driven by the Dashboard handlers and *)
(* answered by the query service of client/src/services/api.ts.            *)
(*                                                                         *)
(* Execution is single-threaded and cooperative: an action of this module  *)
(* is one run-to-completion stretch of JavaScript, from a user event or a  *)
(* settled request up to the next await.  Every setState(prev => ...) is   *)
(* applied to the Store in the order it is called.                         *)
(***************************************************************************)
EXTENDS Integers, Sequences, FiniteSets, Bags, TLC

----------------------------------------------------------------------------
(* Bounds *)

\* user operations (loadCompanies, selectCompany, selectYear, uploadFile)
\* started in one behaviour
MaxCalls == 3

\* upload flows started from the upload component in one behaviour
MaxUploads == 1

\* upload flows started in one behaviour in which the progress stream is
\* unavailable
MaxFlows == 2

\* completion polls of one flow that are outstanding together and answered;
\* a poll issued beyond them is never answered
MaxPolls == 2

\* payloads of each faulty kind (not JSON; progress out of range) the
\* progress stream of one flow delivers
MaxMalformed == 1

\* search requests sent from the Chatbot in one behaviour
MaxSearches == 2

\* characters of the question typed into the Chatbot
MaxQuery == 2

----------------------------------------------------------------------------
(* Values.  null is modelled by one distinguished value per field type.    *)

NoCompany == "none"
NoYear == 0
NoFinancialData == [company_id |-> "none", year |-> 0]
NoTrends == [company_id |-> "none"]
NoError == "none"
NoResume == [company |-> "none", years |-> <<>>]

Range(s) == {s[j] : j \in DOMAIN s}

\* all orderings of a finite set, as sequences without repetition
Orderings(S) ==
  {s \in [1..Cardinality(S) -> S] : \A a, b \in 1..Cardinality(S) : a # b => s[a] # s[b]}

----------------------------------------------------------------------------
(* The query service (a black box behind api.ts).                          *)

\* GET /companies once the service holds data; a Company is modelled by its id
ServerCompanies == <<"A", "B", "C">>

\* the fiscal years the service holds per company; company C has none
ServerYearSet(c) ==
  CASE c = "A" -> {2021, 2022}
    [] c = "B" -> {2023}
    [] OTHER -> {}

\* the year values a consumer can pass to selectYear
YearInputs == {2021, 2022, 2023}

\* GET /financial-data/c/y : the snapshot of the pair (c, y)
ServerFinancialData(c, y) == [company_id |-> c, year |-> y]

\* the outcomes the service can give request k of a financial-data/QA step:
\* it has no snapshot to return for a year it does not hold for the company
ServerAnswers(call, k, outcome) ==
  (k = 1 /\ outcome = "ok") => call.year \in ServerYearSet(call.company)

\* GET /trends/c
ServerTrends(c) == [company_id |-> c]

\* GET /qa-findings/c?year=y : the findings of the pair; some pairs have none
ServerQAFindings(c, y) ==
  IF y \in ServerYearSet(c) /\ y # 2021
    THEN <<[company_id |-> c, year |-> y]>>
    ELSE <<>>

\* the message of the Error thrown by an api operation on a non-success status
TransportError(endpoint) ==
  CASE endpoint = "upload" -> "Failed to upload file"
    [] endpoint = "companies" -> "Failed to fetch companies"
    [] endpoint = "years" -> "Failed to fetch years"
    [] endpoint = "financial-data" -> "Failed to fetch financial data"
    [] endpoint = "trends" -> "Failed to fetch trends"
    [] OTHER -> "Failed to fetch QA findings"

UploadWarning == "warning"

----------------------------------------------------------------------------
(* The Transport Client (api.ts): one operation on one response.           *)

Operations ==
  {"uploadFile", "getCompanies", "getYears", "getFinancialData", "getTrends",
   "getQAFindings", "search"}

\* the status codes of the responses fed to the operations
Statuses == {200, 201, 202, 400, 404, 500}

\* the bodies of the responses: a JSON object with a non-empty error field,
\* with an empty one, without one; the JSON value null; text that is not JSON
Bodies == {"error", "emptyError", "noError", "null", "html"}

ServerMessage == "Invalid file type"
MsgSyntaxError == "Unexpected token < in JSON at position 0"
MsgTypeError == "Cannot read properties of null"
Undefined == "undefined"

\* the generic message each operation falls back to
FallbackMessage(op) ==
  CASE op = "uploadFile" -> TransportError("upload")
    [] op = "getCompanies" -> TransportError("companies")
    [] op = "getYears" -> TransportError("years")
    [] op = "getFinancialData" -> TransportError("financial-data")
    [] op = "getTrends" -> TransportError("trends")
    [] op = "getQAFindings" -> TransportError("qa-findings")
    [] OTHER -> "Failed to perform search"

\* response.ok
response_ok(status) == status \in 200..299

\* the statuses an operation takes for a success
TakenAsSuccess(op, status) ==
  response_ok(status) \/ (op = "uploadFile" /\ status = 202)

\* response.json() is fulfilled (TRUE) or rejected with a SyntaxError (FALSE)
response_json(body) == body # "html"

\* error.error of the parsed body of an object
ErrorField(body) ==
  CASE body = "error" -> ServerMessage
    [] body = "emptyError" -> ""
    [] OTHER -> Undefined

\* a || b on the values of an error field
OrElse(a, b) == IF a \in {"", Undefined} THEN b ELSE a

\* the operations that read a field of the parsed body of a success
ReadsField(op) == op \in {"getCompanies", "getYears", "getQAFindings", "search"}

Thrown(name, message) == [kind |-> "throws", error |-> name, message |-> message]
Returned == [kind |-> "returns", error |-> "none", message |-> ""]
Unsettled == [kind |-> "pending", error |-> "none", message |-> ""]

\* what the promise of an operation settles to on a response
Api(op, status, body) ==
  IF ~TakenAsSuccess(op, status)
    THEN IF ~response_json(body) THEN Thrown("SyntaxError", MsgSyntaxError)
         ELSE IF body = "null" THEN Thrown("TypeError", MsgTypeError)
         ELSE Thrown("Error", OrElse(ErrorField(body), FallbackMessage(op)))
    ELSE IF ~response_json(body) THEN Thrown("SyntaxError", MsgSyntaxError)
         ELSE IF body = "null" /\ ReadsField(op) THEN Thrown("TypeError", MsgTypeError)
         ELSE Returned

NoRequest == [op |-> "none", status |-> 0, body |-> "none", result |-> Unsettled]

----------------------------------------------------------------------------
(* Chatbot: the question and String.prototype.trim *)

\* the characters of a question: a blank and a letter
Chars == {" ", "q"}

\* the values of the textarea, as sequences of characters
QueryInputs == UNION {[1..n -> Chars] : n \in 0..MaxQuery}

RECURSIVE trimStart(_)
trimStart(s) == IF s # <<>> /\ Head(s) = " " THEN trimStart(Tail(s)) ELSE s

RECURSIVE trimEnd(_)
trimEnd(s) ==
  IF s # <<>> /\ s[Len(s)] = " " THEN trimEnd(SubSeq(s, 1, Len(s) - 1)) ELSE s

\* input.trim()
trim(s) == trimEnd(trimStart(s))

MsgSearchFailed == "Failed to perform search. Please try again."

\* the cells of a Chatbot that has just been mounted; searches holds the
\* search requests that have not settled, sent counts the requests made
NoChat ==
  [input |-> <<>>, results |-> <<>>, isSearching |-> FALSE, error |-> NoError,
   searches |-> {}, sent |-> 0]

----------------------------------------------------------------------------
(* State *)

VARIABLES
  state,    \* the AppState snapshot held by AppProvider
  calls,    \* the bag of asynchronous steps whose requests are not all settled
  resume,   \* the synchronous rest of selectCompany after its first patch
  server,   \* whether the query service holds company data
  issued,   \* how many times each user operation has been started
  before,   \* the snapshot a re-selection of the selected company started from
  fu,       \* the useState cells of the FileUpload component
  flow,     \* per upload flow: its ingestion call, its EventSource, its polls
  timers,   \* the pending setTimeout and setInterval timers, with the time left
  http,     \* the response an api operation is handling, and what it gave
  cb        \* the useState cells of the Chatbot component and its searches

vars == <<state, calls, resume, server, issued, before, fu, flow, timers, http, cb>>

uploadVars == <<fu, flow, timers>>

Started ==
  issued.loadCompanies + issued.selectCompany + issued.selectYear + issued.uploadFile

initialState ==
  [isDataLoaded |-> FALSE,
   companies |-> <<>>,
   selectedCompany |-> NoCompany,
   availableYears |-> <<>>,
   selectedYear |-> NoYear,
   financialData |-> NoFinancialData,
   trendsData |-> NoTrends,
   qaFindings |-> <<>>,
   isLoading |-> FALSE,
   error |-> NoError]

\* no re-selection of the selected company has been made from a state in
\* which everything had settled
NoSnapshot == initialState

\* the upload flows of one behaviour, in the order they are started
Flows == 1..MaxFlows

\* a flow that has not been started: no ingestion call, no EventSource, no
\* event sent (in sequence, unparsable, or with an invalid progress), no poll
\* outstanding or issued, no completion handled
NoFlow ==
  [post |-> "none", eventSource |-> "none", sent |-> 0, malformed |-> 0,
   invalid |-> 0, polls |-> 0, polled |-> 0, completions |-> 0]

\* one awaited step: the requests it joins with Promise.all (or its single
\* request), each "pending", "ok" or "fail"; alive is FALSE once the await
\* has been rejected and the remaining requests are no longer listened to
Call(op, company, year, r) ==
  [op |-> op, company |-> company, year |-> year, r |-> r, alive |-> TRUE]

\* the endpoint of request k of a step
Endpoint(op, k) ==
  CASE op \in {"checkForData", "loadCompanies"} -> "companies"
    [] op = "uploadFile" -> "upload"
    [] op = "selectCompany" -> (IF k = 1 THEN "years" ELSE "trends")
    [] OTHER -> (IF k = 1 THEN "financial-data" ELSE "qa-findings")

\* the body of GET /companies
getCompanies == IF server = "loaded" THEN ServerCompanies ELSE <<>>

\* AppProvider is mounted: the Store holds its defaults and the mount effect
\* has issued its probe
Init ==
  /\ state = initialState
  /\ calls = SetToBag({Call("checkForData", NoCompany, NoYear, <<"pending">>)})
  /\ resume = NoResume
  /\ server \in {"empty", "loaded"}
  /\ issued = [loadCompanies |-> 0, selectCompany |-> 0, selectYear |-> 0, uploadFile |-> 0]
  /\ before = NoSnapshot
  /\ fu = [mounted |-> TRUE, files |-> 0, message |-> "", isUploading |-> FALSE,
           progress |-> 0, progressStatus |-> ""]
  /\ flow = [id \in Flows |-> NoFlow]
  /\ timers = {}
  /\ http = NoRequest
  /\ cb = NoChat

----------------------------------------------------------------------------
(* Promise.all and await *)

\* a step in flight is started
Start(call) == calls (+) SetToBag({call})

InFlight == BagToSet(calls)

Pending(call, k) ==
  /\ resume = NoResume
  /\ call \in InFlight
  /\ k \in DOMAIN call.r
  /\ call.r[k] = "pending"

\* what the awaiting step sees when request k of the step settles
Verdict(call, k, outcome) ==
  IF ~call.alive THEN "ignored"
  ELSE IF outcome = "fail" THEN "rejected"
  ELSE IF \A j \in DOMAIN call.r : j = k \/ call.r[j] = "ok" THEN "fulfilled"
  ELSE "waiting"

\* the steps in flight after request k of a step has settled
Settle(call, k, outcome) ==
  LET r == [call.r EXCEPT ![k] = IF outcome = "fail" THEN "fail" ELSE "ok"]
      after == [call EXCEPT !.r = r,
                            !.alive = (Verdict(call, k, outcome) = "waiting")]
      rest == calls (-) SetToBag({call})
  IN IF \E j \in DOMAIN r : r[j] = "pending"
       THEN rest (+) SetToBag({after})
       ELSE rest

----------------------------------------------------------------------------
(* checkForData and loadCompanies *)

checkForData_then(s, companies) ==
  IF Len(companies) > 0
    THEN [s EXCEPT !.isDataLoaded = TRUE, !.companies = companies]
    ELSE s

checkForDataSettles(call, outcome) ==
  /\ Pending(call, 1)
  /\ call.op = "checkForData"
  /\ state' = IF outcome = "ok" THEN checkForData_then(state, getCompanies)
                                ELSE state
  /\ calls' = Settle(call, 1, outcome)
  /\ UNCHANGED <<resume, server, issued, before, fu, flow, timers, http, cb>>

loadCompanies_start(s) == [s EXCEPT !.isLoading = TRUE, !.error = NoError]

\* the patch that takes any successful answer for loaded data
loadCompanies_then_alwaysLoaded(s, companies) ==
  [s EXCEPT !.companies = companies, !.isDataLoaded = TRUE, !.isLoading = FALSE]

loadCompanies_then(s, companies) ==
  [s EXCEPT !.companies = companies,
            !.isDataLoaded = (Len(companies) > 0),
            !.isLoading = FALSE]

\* the catch block that also drops the company list
loadCompanies_catch_dropsCompanies(s) ==
  [s EXCEPT !.error = "Failed to load companies",
            !.isLoading = FALSE,
            !.companies = <<>>,
            !.isDataLoaded = FALSE]

loadCompanies_catch(s) ==
  [s EXCEPT !.error = "Failed to load companies", !.isLoading = FALSE]

loadCompanies ==
  /\ resume = NoResume
  /\ Started < MaxCalls
  /\ state' = loadCompanies_start(state)
  /\ calls' = Start(Call("loadCompanies", NoCompany, NoYear, <<"pending">>))
  /\ issued' = [issued EXCEPT !.loadCompanies = @ + 1]
  /\ before' = NoSnapshot
  /\ UNCHANGED <<resume, server, fu, flow, timers, http, cb>>

\* the service answers the company-list request of a loadCompanies call
\* while it holds no data: the response, with an empty list, is on its way
\* and is delivered whenever the network delivers it
companiesResponseSent(call) ==
  /\ Pending(call, 1)
  /\ call.op = "loadCompanies"
  /\ server = "empty"
  /\ calls' = (calls (-) SetToBag({call})) (+) SetToBag({[call EXCEPT !.r = <<"empty">>]})
  /\ UNCHANGED <<state, resume, server, issued, before, fu, flow, timers, http, cb>>

\* data.companies of the response of a call: the list the service held when
\* it answered
ResponseCompanies(call) ==
  IF call.r[1] = "empty" THEN <<>> ELSE getCompanies

\* the response of a loadCompanies call is delivered, or its request fails
loadCompaniesSettles(call, outcome) ==
  /\ resume = NoResume
  /\ call \in InFlight
  /\ call.r[1] \in {"pending", "empty"}
  /\ call.op = "loadCompanies"
  /\ state' = IF outcome = "ok" THEN loadCompanies_then(state, ResponseCompanies(call))
                                ELSE loadCompanies_catch(state)
  /\ calls' = Settle(call, 1, outcome)
  /\ UNCHANGED <<resume, server, issued, before, fu, flow, timers, http, cb>>

----------------------------------------------------------------------------
(* selectCompany *)

\* the reset that leaves the data of the previous selection in the Store
selectCompany_reset_keepsData(s, company) ==
  [s EXCEPT !.isLoading = TRUE,
            !.error = NoError,
            !.selectedCompany = company,
            !.selectedYear = NoYear,
            !.availableYears = <<>>,
            !.trendsData = NoTrends]

selectCompany_reset(s, company) ==
  [s EXCEPT !.isLoading = TRUE,
            !.error = NoError,
            !.selectedCompany = company,
            !.selectedYear = NoYear,
            !.availableYears = <<>>,
            !.financialData = NoFinancialData,
            !.trendsData = NoTrends,
            !.qaFindings = <<>>]

selectCompany_then(s, years, trendsData) ==
  [s EXCEPT !.availableYears = years,
            !.trendsData = trendsData,
            !.isLoading = FALSE]

\* the catch block that reports the error and leaves the loading flag set
selectCompany_catch_keepsLoading(s, message) == [s EXCEPT !.error = message]

selectCompany_catch(s, message) ==
  [s EXCEPT !.error = message, !.isLoading = FALSE]

RECURSIVE MathMax(_)
\* Math.max(...years) of a non-empty list
MathMax(years) ==
  IF Len(years) = 1 THEN years[1]
  ELSE LET m == MathMax(Tail(years))
       IN IF years[1] > m THEN years[1] ELSE m

\* the last element of the list taken for the most recent year
mostRecentYear_last(years) == years[Len(years)]

mostRecentYear(years) == MathMax(years)

selectCompany_autoSelect(s, year) ==
  [s EXCEPT !.isLoading = TRUE, !.selectedYear = year]

cascade_then(s, financialData, qaFindings) ==
  [s EXCEPT !.financialData = financialData,
            !.qaFindings = qaFindings,
            !.isLoading = FALSE]

\* the catch block of the cascade that also drops the selected year
cascade_catch_clearsYear(s, message) ==
  [s EXCEPT !.error = message, !.isLoading = FALSE, !.selectedYear = NoYear]

cascade_catch(s, message) ==
  [s EXCEPT !.error = message, !.isLoading = FALSE]

\* the reset patch and the two requests joined by Promise.all
selectCompany(company) ==
  /\ resume = NoResume
  /\ Started < MaxCalls
  /\ state' = selectCompany_reset(state, company)
  /\ calls' = Start(Call("selectCompany", company, NoYear, <<"pending", "pending">>))
  /\ issued' = [issued EXCEPT !.selectCompany = @ + 1]
  /\ before' = IF calls = EmptyBag /\ state.selectedCompany = company
                 THEN state
                 ELSE NoSnapshot
  /\ UNCHANGED <<resume, server, fu, flow, timers, http, cb>>

\* Dashboard: the company is looked up by id in the Store's companies
handleCompanyChange(companyId) ==
  /\ companyId \in Range(state.companies)
  /\ selectCompany(companyId)

\* listYears or getTrends of step i settles; on fulfilment the first patch is
\* applied and, for a non-empty list, the rest of the function is still to run
selectCompanySettles(call, k, outcome, years) ==
  /\ Pending(call, k)
  /\ call.op = "selectCompany"
  /\ Range(years) = ServerYearSet(call.company)
  /\ LET v == Verdict(call, k, outcome)
         company == call.company
     IN /\ state' = CASE v = "fulfilled" ->
                           selectCompany_then(state, years, ServerTrends(company))
                      [] v = "rejected" ->
                           selectCompany_catch(state, TransportError(Endpoint("selectCompany", k)))
                      [] OTHER -> state
        /\ resume' = IF v = "fulfilled" /\ Len(years) > 0
                       THEN [company |-> company, years |-> years]
                       ELSE NoResume
  /\ calls' = Settle(call, k, outcome)
  /\ UNCHANGED <<server, issued, before, fu, flow, timers, http, cb>>

\* the automatic selection of the most recent year and its two requests
selectCompanyCascade ==
  /\ resume # NoResume
  /\ LET year == mostRecentYear(resume.years)
     IN /\ state' = selectCompany_autoSelect(state, year)
        /\ calls' = Start(Call("cascade", resume.company, year, <<"pending", "pending">>))
  /\ resume' = NoResume
  /\ UNCHANGED <<server, issued, before, fu, flow, timers, http, cb>>

cascadeSettles(call, k, outcome) ==
  /\ Pending(call, k)
  /\ call.op = "cascade"
  /\ ServerAnswers(call, k, outcome)
  /\ LET v == Verdict(call, k, outcome)
         company == call.company
         year == call.year
     IN state' = CASE v = "fulfilled" ->
                        cascade_then(state, ServerFinancialData(company, year),
                                     ServerQAFindings(company, year))
                   [] v = "rejected" ->
                        cascade_catch(state, TransportError(Endpoint("cascade", k)))
                   [] OTHER -> state
  /\ calls' = Settle(call, k, outcome)
  /\ UNCHANGED <<resume, server, issued, before, fu, flow, timers, http, cb>>

----------------------------------------------------------------------------
(* selectYear *)

selectYear_start(s, year) ==
  [s EXCEPT !.isLoading = TRUE, !.error = NoError, !.selectedYear = year]

\* the patch that writes the financial data without the findings
selectYear_then_partial(s, financialData, qaFindings) ==
  [s EXCEPT !.financialData = financialData, !.isLoading = FALSE]

selectYear_then(s, financialData, qaFindings) ==
  [s EXCEPT !.financialData = financialData,
            !.qaFindings = qaFindings,
            !.isLoading = FALSE]

\* the catch block that reports the error and leaves the loading flag set
selectYear_catch_keepsLoading(s) == [s EXCEPT !.error = "Failed to load year data"]

selectYear_catch(s) ==
  [s EXCEPT !.error = "Failed to load year data", !.isLoading = FALSE]

\* selectYear without its guard on the selected company
selectYear_unguarded(year) ==
  /\ resume = NoResume
  /\ Started < MaxCalls
  /\ issued' = [issued EXCEPT !.selectYear = @ + 1]
  /\ before' = NoSnapshot
  /\ state' = selectYear_start(state, year)
  /\ calls' = Start(Call("selectYear", state.selectedCompany, year,
                             <<"pending", "pending">>))
  /\ UNCHANGED <<resume, server, fu, flow, timers, http, cb>>

\* the guard, the loading patch and the two requests for the company the
\* Store holds when the function is called
selectYear(year) ==
  /\ resume = NoResume
  /\ Started < MaxCalls
  /\ issued' = [issued EXCEPT !.selectYear = @ + 1]
  /\ before' = NoSnapshot
  /\ IF state.selectedCompany = NoCompany
       THEN UNCHANGED <<state, calls>>
       ELSE /\ state' = selectYear_start(state, year)
            /\ calls' = Start(Call("selectYear", state.selectedCompany, year,
                                       <<"pending", "pending">>))
  /\ UNCHANGED <<resume, server, fu, flow, timers, http, cb>>

\* Dashboard: the value of the chosen option parsed as an integer
handleYearChange(year) == selectYear(year)

selectYearSettles(call, k, outcome) ==
  /\ Pending(call, k)
  /\ call.op = "selectYear"
  /\ ServerAnswers(call, k, outcome)
  /\ LET v == Verdict(call, k, outcome)
         company == call.company
         year == call.year
     IN state' = CASE v = "fulfilled" ->
                        selectYear_then(state, ServerFinancialData(company, year),
                                        ServerQAFindings(company, year))
                   [] v = "rejected" -> selectYear_catch(state)
                   [] OTHER -> state
  /\ calls' = Settle(call, k, outcome)
  /\ UNCHANGED <<resume, server, issued, before, fu, flow, timers, http, cb>>

----------------------------------------------------------------------------
(* uploadFile *)

uploadFile_start(s) == [s EXCEPT !.isLoading = TRUE, !.error = NoError]

uploadFile_warning(s, warning) ==
  [s EXCEPT !.error = warning, !.isLoading = FALSE]

uploadFile_catch(s, message) ==
  [s EXCEPT !.error = message, !.isLoading = FALSE]

uploadFile ==
  /\ resume = NoResume
  /\ Started < MaxCalls
  /\ state' = uploadFile_start(state)
  /\ calls' = Start(Call("uploadFile", NoCompany, NoYear, <<"pending">>))
  /\ issued' = [issued EXCEPT !.uploadFile = @ + 1]
  /\ before' = NoSnapshot
  /\ UNCHANGED <<resume, server, fu, flow, timers, http, cb>>

\* the ingestion call settles: a failure, a response with a warning, or a
\* response without one, after which loadCompanies is awaited; the service
\* may hold the uploaded data by then or not yet
uploadFileSettles(call, outcome, ingested) ==
  /\ Pending(call, 1)
  /\ call.op = "uploadFile"
  /\ state' = CASE outcome = "ok" -> loadCompanies_start(state)
                [] outcome = "warning" -> uploadFile_warning(state, UploadWarning)
                [] OTHER -> uploadFile_catch(state, TransportError("upload"))
  /\ calls' = IF outcome = "ok"
                THEN Settle(call, 1, outcome)
                       (+) SetToBag({Call("loadCompanies", NoCompany, NoYear, <<"pending">>)})
                ELSE Settle(call, 1, outcome)
  /\ server' = IF outcome # "fail" /\ ingested THEN "loaded" ELSE server
  /\ UNCHANGED <<resume, issued, before, fu, flow, timers, http, cb>>

----------------------------------------------------------------------------
(* FileUpload: handleUpload, its EventSource callbacks and its timers *)

\* the delays of setTimeout and setInterval, in milliseconds
ResetDelay == 2000
PollInterval == 3000
PollTimeout == 120000

\* the progress values of the events the ingestion service pushes for one
\* session; the last event carries completed = true
ProgressValues == <<5, 20, 55, 100>>

\* event.data of the k-th progress event, and of a payload that is not JSON
StreamEvent(k) ==
  [json |-> TRUE, progress |-> ProgressValues[k],
   status |-> IF k = Len(ProgressValues) THEN "Completed" ELSE "Processing",
   completed |-> (k = Len(ProgressValues))]

MalformedEvent ==
  [json |-> FALSE, progress |-> 0, status |-> "", completed |-> FALSE]

\* event.data that is JSON whose progress field is outside [0,100]
OutOfRangeEvent ==
  [json |-> TRUE, progress |-> 150, status |-> "Processing", completed |-> FALSE]

\* JSON.parse(event.data) returns (TRUE) or throws (FALSE)
JSONparse(raw) == raw.json

\* the payloads the stream of a flow can deliver next: the next progress event
\* (the last one once the service holds the ingested data), a malformed one,
\* or one with an out-of-range progress
NextEvents(id) ==
  {StreamEvent(k) : k \in {j \in {flow[id].sent + 1} :
                             /\ j <= Len(ProgressValues)
                             /\ j = Len(ProgressValues) => server = "loaded"}}
  \cup (IF flow[id].malformed < MaxMalformed THEN {MalformedEvent} ELSE {})
  \cup (IF flow[id].invalid < MaxMalformed THEN {OutOfRangeEvent} ELSE {})

MsgNoFile == "Please select a file first!"
MsgUploaded == "File uploaded and processed successfully"
MsgParseError == "Error parsing progress data"
MsgPolled == "File processed successfully (progress tracking failed)"
MsgTimeout == "Processing timeout - please check if file was processed"
MsgNoTracking == "Upload started but progress tracking unavailable"
MsgUploadFailed == "Upload failed"
MsgUploadError == "Error uploading file"

\* a timer: the callback it runs, the flow whose closure it belongs to, and
\* the time left before it is due
Timer(kind, id, left) == [kind |-> kind, id |-> id, left |-> left]

\* the timers that stay pending when timer t fires, after the time t had left
Elapse(t) == {[u EXCEPT !.left = @ - t.left] : u \in timers \ {t}}

\* a timer that is due first
Due(t) == t \in timers /\ \A u \in timers : t.left <= u.left

\* clearInterval(checkInterval) in the closure of a flow
clearInterval(ts, id) == {u \in ts : ~(u.kind = "checkInterval" /\ u.id = id)}

\* loadCompanies() called from the component: its first patch and its request
callLoadCompanies ==
  /\ state' = loadCompanies_start(state)
  /\ calls' = Start(Call("loadCompanies", NoCompany, NoYear, <<"pending">>))

handleFileChange ==
  /\ fu.mounted
  /\ fu.files = 0 \/ fu.message # ""
  /\ fu' = [fu EXCEPT !.files = 1, !.message = ""]
  /\ UNCHANGED <<state, calls, resume, server, issued, before, flow, timers, http, cb>>

\* the Upload button (enabled unless state.isLoading or isUploading) is
\* clicked: the validation, the first three setters and the ingestion call
handleUpload ==
  /\ fu.mounted
  /\ ~(state.isLoading \/ fu.isUploading)
  /\ IF fu.files = 0
       THEN /\ fu.message # MsgNoFile
            /\ fu' = [fu EXCEPT !.message = MsgNoFile]
            /\ UNCHANGED flow
       ELSE /\ \E id \in Flows :
                 /\ flow[id].post = "none"
                 /\ \A j \in 1..(id - 1) : flow[j].post # "none"
                 /\ flow' = [flow EXCEPT ![id].post = "pending"]
            /\ fu' = [fu EXCEPT !.isUploading = TRUE,
                                 !.progress = 0,
                                 !.progressStatus = "Uploading file..."]
  /\ UNCHANGED <<state, calls, resume, server, issued, before, timers, http, cb>>

\* the route that renders the component is left: the component is unmounted.
\* It registers no cleanup, so its EventSource, its timers and its pending
\* requests stay as they are; the setters its callbacks close over still
\* write the cells, which nothing renders any more
unmount ==
  /\ fu.mounted
  /\ fu' = [fu EXCEPT !.mounted = FALSE]
  /\ UNCHANGED <<state, calls, resume, server, issued, before, flow, timers, http, cb>>

\* the ingestion call settling with an EventSource created whether or not the
\* answer holds a session_id
uploadSettles_opensStream(id, outcome) ==
  /\ flow[id].post = "pending"
  /\ flow' = [flow EXCEPT ![id].post = outcome,
                          ![id].eventSource =
                             IF outcome \in {"session", "nosession"}
                               THEN "connecting" ELSE @]
  /\ fu' = CASE outcome = "session" -> fu
             [] outcome = "nosession" ->
                  [fu EXCEPT !.message = MsgNoTracking, !.isUploading = FALSE]
             [] outcome = "refused" ->
                  [fu EXCEPT !.message = MsgUploadFailed, !.isUploading = FALSE,
                             !.progress = 0, !.progressStatus = ""]
             [] OTHER ->
                  [fu EXCEPT !.message = MsgUploadError, !.isUploading = FALSE,
                             !.progress = 0, !.progressStatus = ""]
  /\ UNCHANGED <<state, calls, resume, server, issued, before, timers, http, cb>>

\* the ingestion call settles: accepted with a session_id (the EventSource is
\* created), accepted without one, refused with an error status, or the
\* fetch or response.json() throws
uploadSettles(id, outcome) ==
  /\ flow[id].post = "pending"
  /\ flow' = [flow EXCEPT ![id].post = outcome,
                          ![id].eventSource =
                             IF outcome = "session" THEN "connecting" ELSE @]
  /\ fu' = CASE outcome = "session" -> fu
             [] outcome = "nosession" ->
                  [fu EXCEPT !.message = MsgNoTracking, !.isUploading = FALSE]
             [] outcome = "refused" ->
                  [fu EXCEPT !.message = MsgUploadFailed, !.isUploading = FALSE,
                             !.progress = 0, !.progressStatus = ""]
             [] OTHER ->
                  [fu EXCEPT !.message = MsgUploadError, !.isUploading = FALSE,
                             !.progress = 0, !.progressStatus = ""]
  /\ UNCHANGED <<state, calls, resume, server, issued, before, timers, http, cb>>

\* the ingestion service finishes processing an accepted upload
ingestionCompletes ==
  /\ server = "empty"
  /\ \E id \in Flows : flow[id].post \in {"session", "nosession"}
  /\ server' = "loaded"
  /\ UNCHANGED <<state, calls, resume, issued, before, fu, flow, timers, http, cb>>

eventSource_onopen(id) ==
  /\ flow[id].eventSource = "connecting"
  /\ flow' = [flow EXCEPT ![id].eventSource = "open"]
  /\ fu' = [fu EXCEPT !.progress = 5,
                       !.progressStatus = "Connected to progress tracking..."]
  /\ UNCHANGED <<state, calls, resume, server, issued, before, timers, http, cb>>

\* the catch block of onmessage
onmessage_catch(id) ==
  /\ flow' = [flow EXCEPT ![id].malformed = @ + 1, ![id].eventSource = "closed"]
  /\ fu' = [fu EXCEPT !.isUploading = FALSE, !.message = MsgParseError]
  /\ UNCHANGED <<state, calls, timers>>

\* the completion branch of onmessage that leaves the EventSource open
onmessage_completed_keepsOpen(id, data) ==
  /\ flow' = [flow EXCEPT ![id].sent = @ + 1, ![id].completions = @ + 1]
  /\ fu' = [fu EXCEPT !.progress = data.progress,
                       !.progressStatus = data.status,
                       !.message = MsgUploaded,
                       !.files = 0]
  /\ callLoadCompanies
  /\ timers' = timers \cup {Timer("reset", id, ResetDelay)}

\* the completion branch of onmessage that resets the component at once
onmessage_completed_resetsAtOnce(id, data) ==
  /\ flow' = [flow EXCEPT ![id].sent = @ + 1,
                          ![id].completions = @ + 1,
                          ![id].eventSource = "closed"]
  /\ fu' = [fu EXCEPT !.progress = 0,
                       !.progressStatus = "",
                       !.isUploading = FALSE,
                       !.message = MsgUploaded,
                       !.files = 0]
  /\ callLoadCompanies
  /\ timers' = timers

\* the branch of onmessage for an event with completed = true
onmessage_completed(id, data) ==
  /\ flow' = [flow EXCEPT ![id].sent = @ + 1,
                          ![id].completions = @ + 1,
                          ![id].eventSource = "closed"]
  /\ fu' = [fu EXCEPT !.progress = data.progress,
                       !.progressStatus = data.status,
                       !.message = MsgUploaded,
                       !.files = 0]
  /\ callLoadCompanies
  /\ timers' = timers \cup {Timer("reset", id, ResetDelay)}

\* a message event is dispatched on the open EventSource of a flow
eventSource_onmessage(id, raw) ==
  /\ flow[id].eventSource = "open"
  /\ raw \in NextEvents(id)
  /\ IF ~JSONparse(raw)
       THEN onmessage_catch(id)
       ELSE IF raw.completed
         THEN onmessage_completed(id, raw)
         ELSE /\ flow' = IF raw = OutOfRangeEvent
                            THEN [flow EXCEPT ![id].invalid = @ + 1]
                            ELSE [flow EXCEPT ![id].sent = @ + 1]
              /\ fu' = [fu EXCEPT !.progress = raw.progress,
                                   !.progressStatus = raw.status]
              /\ UNCHANGED <<state, calls, timers>>
  /\ UNCHANGED <<resume, server, issued, before, http, cb>>

\* the error handler that gives up at once instead of polling
eventSource_onerror_fails(id) ==
  /\ flow[id].eventSource \in {"connecting", "open"}
  /\ flow' = [flow EXCEPT ![id].eventSource = "closed"]
  /\ fu' = [fu EXCEPT !.isUploading = FALSE, !.message = MsgTimeout]
  /\ UNCHANGED <<state, calls, resume, server, issued, before, timers, http, cb>>

\* the error handler that sets up the polling without closing the stream
eventSource_onerror_keepsOpen(id) ==
  /\ flow[id].eventSource \in {"connecting", "open"}
  /\ Timer("timeout", id, PollTimeout) \notin timers
  /\ fu' = [fu EXCEPT !.progressStatus =
                         "Progress tracking failed, checking completion..."]
  /\ timers' = timers \cup {Timer("checkInterval", id, PollInterval),
                             Timer("timeout", id, PollTimeout)}
  /\ UNCHANGED <<state, calls, resume, server, issued, before, flow, http, cb>>

\* an error event is dispatched on the EventSource of a flow, connecting or
\* open: the polling fallback and its timeout are set up
eventSource_onerror(id) ==
  /\ flow[id].eventSource \in {"connecting", "open"}
  /\ flow' = [flow EXCEPT ![id].eventSource = "closed"]
  /\ fu' = [fu EXCEPT !.progressStatus =
                         "Progress tracking failed, checking completion..."]
  /\ timers' = timers \cup {Timer("checkInterval", id, PollInterval),
                             Timer("timeout", id, PollTimeout)}
  /\ UNCHANGED <<state, calls, resume, server, issued, before, http, cb>>

\* the interval of a flow is due: the callback issues its company-list
\* request and the interval is armed again
checkInterval_fires(t) ==
  /\ Due(t)
  /\ t.kind = "checkInterval"
  /\ flow' = [flow EXCEPT ![t.id].polled = @ + 1,
                          ![t.id].polls = IF @ < MaxPolls THEN @ + 1 ELSE @]
  /\ timers' = Elapse(t) \cup {Timer("checkInterval", t.id, PollInterval)}
  /\ UNCHANGED <<state, calls, resume, server, issued, before, fu, http, cb>>

\* the branch of the poll callback for a non-empty company list
poll_completed(id) ==
  /\ timers' = clearInterval(timers, id) \cup {Timer("reset", id, ResetDelay)}
  /\ fu' = [fu EXCEPT !.progress = 100,
                       !.progressStatus = "Processing completed!",
                       !.message = MsgPolled]
  /\ callLoadCompanies

\* the company-list request of a poll settles
pollSettles(id, outcome) ==
  /\ flow[id].polls > 0
  /\ IF outcome = "ok" /\ Len(getCompanies) > 0
       THEN /\ poll_completed(id)
            /\ flow' = [flow EXCEPT ![id].polls = @ - 1,
                                    ![id].completions = @ + 1]
       ELSE /\ flow' = [flow EXCEPT ![id].polls = @ - 1]
            /\ UNCHANGED <<state, calls, fu, timers>>
  /\ UNCHANGED <<resume, server, issued, before, http, cb>>

\* the timeout callback that leaves the interval running
timeout_fires_keepsPolling(t) ==
  /\ Due(t)
  /\ t.kind = "timeout"
  /\ timers' = Elapse(t)
  /\ fu' = [fu EXCEPT !.isUploading = FALSE, !.message = MsgTimeout]
  /\ UNCHANGED <<state, calls, resume, server, issued, before, flow, http, cb>>

\* the two-minute timeout set up by onerror is due
timeout_fires(t) ==
  /\ Due(t)
  /\ t.kind = "timeout"
  /\ timers' = clearInterval(Elapse(t), t.id)
  /\ fu' = [fu EXCEPT !.isUploading = FALSE, !.message = MsgTimeout]
  /\ UNCHANGED <<state, calls, resume, server, issued, before, flow, http, cb>>

\* the two-second timer set at completion is due
reset_fires(t) ==
  /\ Due(t)
  /\ t.kind = "reset"
  /\ timers' = Elapse(t)
  /\ fu' = [fu EXCEPT !.isUploading = FALSE, !.progress = 0,
                       !.progressStatus = ""]
  /\ UNCHANGED <<state, calls, resume, server, issued, before, flow, http, cb>>

----------------------------------------------------------------------------
(* Chatbot: handleSend *)

\* onChange of the textarea
setInput(value) ==
  /\ value # cb.input
  /\ cb' = [cb EXCEPT !.input = value]
  /\ UNCHANGED <<state, calls, resume, server, issued, before, fu, flow, timers, http>>

\* handleSend whose guard tests the input as typed
handleSend_noTrim ==
  /\ cb.sent < MaxSearches
  /\ IF cb.input = <<>>
       THEN UNCHANGED cb
       ELSE cb' = [cb EXCEPT !.isSearching = TRUE,
                             !.error = NoError,
                             !.sent = @ + 1,
                             !.searches = @ \cup {[n |-> cb.sent + 1,
                                                    query |-> trim(cb.input),
                                                    company |-> state.selectedCompany,
                                                    year |-> state.selectedYear]}]
  /\ UNCHANGED <<state, calls, resume, server, issued, before, fu, flow, timers, http>>

\* the Search button is clicked or Enter is pressed: the guard on the
\* trimmed input, the two setters and the search request
handleSend ==
  /\ cb.sent < MaxSearches
  /\ IF trim(cb.input) = <<>>
       THEN UNCHANGED cb
       ELSE cb' = [cb EXCEPT !.isSearching = TRUE,
                             !.error = NoError,
                             !.sent = @ + 1,
                             !.searches = @ \cup {[n |-> cb.sent + 1,
                                                    query |-> trim(cb.input),
                                                    company |-> state.selectedCompany,
                                                    year |-> state.selectedYear]}]
  /\ UNCHANGED <<state, calls, resume, server, issued, before, fu, flow, timers, http>>

\* a search request settles: the results are stored or the error is set, and
\* the finally block sets isSearching = false
searchSettles(s, outcome) ==
  /\ s \in cb.searches
  /\ cb' = IF outcome = "ok"
             THEN [cb EXCEPT !.results = <<[query |-> s.query]>>,
                             !.isSearching = FALSE,
                             !.searches = @ \ {s}]
             ELSE [cb EXCEPT !.error = MsgSearchFailed,
                             !.isSearching = FALSE,
                             !.searches = @ \ {s}]
  /\ UNCHANGED <<state, calls, resume, server, issued, before, fu, flow, timers, http>>

----------------------------------------------------------------------------
(* One api operation on one response *)

\* fetch has resolved with a response for some operation of api.ts
InitTransport ==
  /\ state = initialState
  /\ calls = SetToBag({Call("checkForData", NoCompany, NoYear, <<"pending">>)})
  /\ resume = NoResume
  /\ server \in {"empty", "loaded"}
  /\ issued = [loadCompanies |-> 0, selectCompany |-> 0, selectYear |-> 0, uploadFile |-> 0]
  /\ before = NoSnapshot
  /\ fu = [mounted |-> TRUE, files |-> 0, message |-> "", isUploading |-> FALSE,
           progress |-> 0, progressStatus |-> ""]
  /\ flow = [id \in Flows |-> NoFlow]
  /\ timers = {}
  /\ http \in [op : Operations, status : Statuses, body : Bodies, result : {Unsettled}]
  /\ cb = NoChat

\* the operation runs from the response to the settlement of its promise
apiSettles ==
  /\ http.op \in Operations
  /\ http.result = Unsettled
  /\ http' = [http EXCEPT !.result = Api(http.op, http.status, http.body)]
  /\ UNCHANGED <<state, calls, resume, server, issued, before, fu, flow, timers, cb>>

NextTransport == apiSettles

SpecTransport == InitTransport /\ [][NextTransport]_vars

----------------------------------------------------------------------------
(* Specification *)

Outcomes == {"ok", "fail"}

Next ==
  \/ loadCompanies
  \/ \E c \in Range(ServerCompanies) : handleCompanyChange(c)
  \/ \E y \in YearInputs : handleYearChange(y)
  \/ uploadFile
  \/ \E call \in InFlight, o \in Outcomes : checkForDataSettles(call, o)
  \/ \E call \in InFlight : companiesResponseSent(call)
  \/ \E call \in InFlight, o \in Outcomes : loadCompaniesSettles(call, o)
  \/ \E call \in InFlight, k \in 1..2, o \in Outcomes :
       \E years \in Orderings(ServerYearSet(call.company)) :
         selectCompanySettles(call, k, o, years)
  \/ selectCompanyCascade
  \/ \E call \in InFlight, k \in 1..2, o \in Outcomes : cascadeSettles(call, k, o)
  \/ \E call \in InFlight, k \in 1..2, o \in Outcomes : selectYearSettles(call, k, o)
  \/ \E call \in InFlight, o \in Outcomes \cup {"warning"}, ingested \in BOOLEAN :
       uploadFileSettles(call, o, ingested)

Spec == Init /\ [][Next]_vars

\* every request has settled and no function is in the middle of its run
Quiescent == calls = EmptyBag /\ resume = NoResume

\* the same program when the user starts an operation only after everything
\* started before it has settled, and picks the year among the options the
\* Dashboard lists
NextSequential ==
  \/ Quiescent /\ loadCompanies
  \/ Quiescent /\ \E c \in Range(ServerCompanies) : handleCompanyChange(c)
  \/ Quiescent /\ \E y \in Range(state.availableYears) : handleYearChange(y)
  \/ Quiescent /\ uploadFile
  \/ \E call \in InFlight, o \in Outcomes : checkForDataSettles(call, o)
  \/ \E call \in InFlight : companiesResponseSent(call)
  \/ \E call \in InFlight, o \in Outcomes : loadCompaniesSettles(call, o)
  \/ \E call \in InFlight, k \in 1..2, o \in Outcomes :
       \E years \in Orderings(ServerYearSet(call.company)) :
         selectCompanySettles(call, k, o, years)
  \/ selectCompanyCascade
  \/ \E call \in InFlight, k \in 1..2, o \in Outcomes : cascadeSettles(call, k, o)
  \/ \E call \in InFlight, k \in 1..2, o \in Outcomes : selectYearSettles(call, k, o)
  \/ \E call \in InFlight, o \in Outcomes \cup {"warning"}, ingested \in BOOLEAN :
       uploadFileSettles(call, o, ingested)

SpecSequential == Init /\ [][NextSequential]_vars

\* the FileUpload component on the Store, with the Dashboard left alone
NextUpload ==
  \/ handleFileChange
  \/ (fu.files = 0 \/ flow[MaxUploads].post = "none") /\ handleUpload
  \/ unmount
  \/ \E id \in Flows, o \in {"session", "nosession", "refused", "threw"} :
       uploadSettles(id, o)
  \/ ingestionCompletes
  \/ \E id \in Flows : eventSource_onopen(id)
  \/ \E id \in Flows : \E raw \in NextEvents(id) : eventSource_onmessage(id, raw)
  \/ \E id \in Flows : eventSource_onerror(id)
  \/ \E t \in timers : checkInterval_fires(t)
  \/ \E id \in Flows, o \in Outcomes : pollSettles(id, o)
  \/ \E t \in timers : timeout_fires(t)
  \/ \E t \in timers : reset_fires(t)
  \/ \E call \in InFlight, o \in Outcomes : checkForDataSettles(call, o)
  \/ \E call \in InFlight, o \in Outcomes : loadCompaniesSettles(call, o)

SpecUpload == Init /\ [][NextUpload]_vars

\* the FileUpload component when the progress endpoint is unavailable and
\* every other request is answered: each upload is accepted with a
\* session_id, its EventSource errors before it opens, and the flow falls
\* back to polling
NextFallback ==
  \/ handleFileChange
  \/ handleUpload
  \/ \E id \in Flows : uploadSettles(id, "session")
  \/ ingestionCompletes
  \/ \E id \in Flows : flow[id].eventSource = "connecting" /\ eventSource_onerror(id)
  \/ \E t \in timers : checkInterval_fires(t)
  \/ \E id \in Flows : pollSettles(id, "ok")
  \/ \E t \in timers : timeout_fires(t)
  \/ \E t \in timers : reset_fires(t)
  \/ \E call \in InFlight : checkForDataSettles(call, "ok")
  \/ \E call \in InFlight : loadCompaniesSettles(call, "ok")

SpecFallback == Init /\ [][NextFallback]_vars

\* the Content page with its Chatbot tab: the upload is started and its
\* ingestion call settles, the progress stream being left alone; questions
\* are typed and sent
NextContent ==
  \/ handleFileChange
  \/ handleUpload
  \/ \E id \in Flows, o \in {"session", "nosession", "refused", "threw"} :
       uploadSettles(id, o)
  \/ \E value \in QueryInputs : setInput(value)
  \/ handleSend
  \/ \E s \in cb.searches, o \in Outcomes : searchSettles(s, o)
  \/ \E call \in InFlight, o \in Outcomes : checkForDataSettles(call, o)

SpecContent == Init /\ [][NextContent]_vars

TypeOK ==
  /\ state.isLoading \in BOOLEAN
  /\ state.isDataLoaded \in BOOLEAN
  /\ state.selectedCompany \in Range(ServerCompanies) \cup {NoCompany}
  /\ state.selectedYear \in YearInputs \cup {NoYear}
  /\ Started <= MaxCalls

----------------------------------------------------------------------------
(* Vocabulary of the properties *)

\* the two requests of one step, both still outstanding
BothPending == <<"pending", "pending">>

\* request k of some step started by a Coordinator operation is outstanding
Outstanding(call) == \E k \in DOMAIN call.r : call.r[k] \in {"pending", "empty"}

\* the step leaves the bag of steps in flight (or changes) in this transition
Leaves(call) == CopiesIn(call, calls') < CopiesIn(call, calls)

\* the step is put in flight in this transition
Enters(call) == CopiesIn(call, calls') > CopiesIn(call, calls)

\* no function is between two of its patches: the Store state is one that is
\* left standing until the next event
Settled == resume = NoResume

OnlySelectCompanyCalls ==
  issued.loadCompanies = 0 /\ issued.selectYear = 0 /\ issued.uploadFile = 0

Greatest(S) == CHOOSE m \in S : \A x \in S : x <= m

\* C1 (as stated): when selectCompany calls overlap, the snapshot reached once
\* every request has settled shows only data fetched for the company that was
\* selected last (stated for runs in which no request fails)
C1_Original ==
  (Quiescent /\ OnlySelectCompanyCalls /\ state.error = NoError) =>
    /\ state.financialData # NoFinancialData =>
         state.financialData.company_id = state.selectedCompany
    /\ \A q \in Range(state.qaFindings) : q.company_id = state.selectedCompany

\* C2 (as stated): in every Store state financialData, when non-null, and
\* qaFindings, when non-empty, belong to the pair (selectedCompany, selectedYear)
\* of that state
C2_Original ==
  Settled =>
    /\ state.financialData # NoFinancialData =>
         /\ state.financialData.company_id = state.selectedCompany
         /\ state.financialData.year = state.selectedYear
    /\ \A q \in Range(state.qaFindings) :
         q.company_id = state.selectedCompany /\ q.year = state.selectedYear

\* C3 (as stated): whatever the selectCompany calls and the arrival order of
\* their responses, selectedYear is null or an element of availableYears
C3_Original ==
  (Settled /\ OnlySelectCompanyCalls) =>
    \/ state.selectedYear = NoYear
    \/ state.selectedYear \in Range(state.availableYears)

\* C4 (as stated): a non-empty availableYears and a non-null trendsData were
\* fetched for the company held in selectedCompany
C4_Original ==
  Settled =>
    /\ state.availableYears # <<>> =>
         Range(state.availableYears) = ServerYearSet(state.selectedCompany)
    /\ state.trendsData # NoTrends =>
         state.trendsData.company_id = state.selectedCompany

\* the selection has moved on since the step was started
Superseded(call) ==
  state.selectedCompany # call.company \/ state.selectedYear # call.year

\* C5 (as stated): the response of a selectYear step that a newer selection
\* has superseded never overwrites financialData or qaFindings
C5_Original ==
  [][\A call \in InFlight, k \in 1..2 :
       (/\ selectYearSettles(call, k, "ok")
        /\ Verdict(call, k, "ok") = "fulfilled"
        /\ Superseded(call))
       => /\ state'.financialData = state.financialData
          /\ state'.qaFindings = state.qaFindings]_vars

\* the Store fields selectCompany clears hold their cleared values
Cleared(s) ==
  /\ s.selectedYear = NoYear
  /\ s.availableYears = <<>>
  /\ s.financialData = NoFinancialData
  /\ s.trendsData = NoTrends
  /\ s.qaFindings = <<>>

\* C6: in the Store state in which the listYears and getTrends requests of
\* selectCompany(c) are issued, selectedCompany is c and selectedYear,
\* availableYears, financialData, trendsData and qaFindings are cleared
C6_ResetBeforeFetch ==
  [][\A c \in Range(ServerCompanies) :
       Enters(Call("selectCompany", c, NoYear, BothPending))
       => state'.selectedCompany = c /\ Cleared(state')]_vars

\* company B is selected while the automatic year selection of company A,
\* whose year list had been written, is still in flight: the requests of B
\* are outstanding and the Store is cleared
C6_Witness ==
  /\ issued.selectCompany = 2
  /\ Call("selectCompany", "B", NoYear, BothPending) \in InFlight
  /\ Call("cascade", "A", 2022, BothPending) \in InFlight
  /\ state.selectedCompany = "B"
  /\ Cleared(state)

\* C7 (as stated): while a request issued by loadCompanies, selectCompany (or
\* its cascade), selectYear or uploadFile is outstanding, isLoading is true
C7_Original ==
  (Settled /\ \E call \in InFlight : call.op # "checkForData" /\ Outstanding(call))
  => state.isLoading

\* the two results of a years/trends step are both absent or both present
\* and of one company; likewise the two results of a financial-data/QA step
YearsWithTrends(s) ==
  IF s.trendsData = NoTrends
    THEN s.availableYears = <<>>
    ELSE Range(s.availableYears) = ServerYearSet(s.trendsData.company_id)

DataWithFindings(s) ==
  IF s.financialData = NoFinancialData
    THEN s.qaFindings = <<>>
    ELSE s.qaFindings =
           ServerQAFindings(s.financialData.company_id, s.financialData.year)

\* a request of a two-request step fails, or settles after its sibling failed
SiblingFailed(call, k) ==
  \/ \E years \in Orderings(ServerYearSet(call.company)) :
       selectCompanySettles(call, k, "fail", years)
  \/ cascadeSettles(call, k, "fail")
  \/ selectYearSettles(call, k, "fail")
  \/ ~call.alive /\ Len(call.r) = 2 /\ Leaves(call)

\* C8: no Store state shows only one of the two results of a step, and a
\* step one of whose two requests failed writes neither result
C8_SiblingsJoined ==
  /\ YearsWithTrends(state) /\ DataWithFindings(state)
  /\ [][/\ YearsWithTrends(state') /\ DataWithFindings(state')
        /\ \A call \in InFlight, k \in 1..2 :
             SiblingFailed(call, k) =>
               /\ state'.availableYears = state.availableYears
               /\ state'.trendsData = state.trendsData
               /\ state'.financialData = state.financialData
               /\ state'.qaFindings = state.qaFindings]_vars

\* both results of a step are in the Store, and a later step has one request
\* failed while its sibling is still outstanding
C8_Witness ==
  /\ state.trendsData = ServerTrends("A")
  /\ state.financialData = ServerFinancialData("A", 2022)
  /\ state.qaFindings = ServerQAFindings("A", 2022)
  /\ \E call \in InFlight : call.op = "selectYear" /\ ~call.alive
  /\ state.error = "Failed to load year data"

\* C9 (as stated): when the years/trends step of selectCompany succeeds with
\* an empty list, no year is selected and no request is issued, and the step
\* ends with selectedYear null, no financial data, no findings, isLoading
\* false and error null (stated for the company still selected, in runs in
\* which selectCompany is the only operation called)
C9_Original ==
  [][\A call \in InFlight, k \in 1..2 :
       (/\ OnlySelectCompanyCalls
        /\ state.selectedCompany = call.company
        /\ selectCompanySettles(call, k, "ok", <<>>)
        /\ Verdict(call, k, "ok") = "fulfilled")
       => /\ resume' = NoResume
          /\ \A other \in BagToSet(calls') : ~Enters(other)
          /\ state'.selectedYear = NoYear
          /\ state'.financialData = NoFinancialData
          /\ state'.qaFindings = <<>>
          /\ ~state'.isLoading
          /\ state'.error = NoError]_vars

\* C10: the year selectCompany selects automatically, and fetches financial
\* data and findings for, is the greatest element of the list it received
C10_MostRecentIsGreatest ==
  [][resume # NoResume =>
       LET m == Greatest(Range(resume.years))
       IN /\ resume.years = state.availableYears
          /\ state'.selectedYear = m
          /\ Enters(Call("cascade", resume.company, m, BothPending))]_vars

\* the automatic selection has acted on a list whose greatest element is not
\* its last
C10_Witness ==
  /\ state.availableYears = <<2022, 2021>>
  /\ state.selectedYear = 2022
  /\ Call("cascade", "A", 2022, BothPending) \in InFlight

\* the snapshot holds, free of error, everything the service has for its
\* selected company and year
Loaded(s) ==
  /\ s.error = NoError
  /\ ~s.isLoading
  /\ Range(s.availableYears) = ServerYearSet(s.selectedCompany)
  /\ s.trendsData = ServerTrends(s.selectedCompany)
  /\ s.selectedYear \in Range(s.availableYears)
  /\ s.financialData = ServerFinancialData(s.selectedCompany, s.selectedYear)
  /\ s.qaFindings = ServerQAFindings(s.selectedCompany, s.selectedYear)

\* C11 (as stated): selectCompany(c) called on a settled Store that has c
\* selected (and any of its years chosen), once settled against the same
\* answers of the service, leaves the snapshot the duplicate selection
\* started from
C11_Original ==
  (/\ Quiescent
   /\ before # NoSnapshot
   /\ Loaded(before)
   /\ state.error = NoError
   /\ state.availableYears = before.availableYears)
  => state = before

\* C12: selectYear called while no company is selected issues no request and
\* leaves every field of the Store unchanged
C12_SelectYearWithoutCompany ==
  [][(state.selectedCompany = NoCompany /\ issued'.selectYear # issued.selectYear)
     => state' = state /\ calls' = calls /\ resume' = resume]_vars

\* selectYear has been called on a Store that has the companies loaded and
\* none selected
C12_Witness ==
  /\ issued.selectYear = 1
  /\ issued.selectCompany = 0
  /\ state.companies = ServerCompanies
  /\ state.selectedCompany = NoCompany
  /\ state.selectedYear = NoYear
  /\ ~state.isLoading

\* a step is started in this transition: its requests are issued
Issues(other) ==
  Enters(other) /\ \A j \in DOMAIN other.r : other.r[j] = "pending"

\* the years/trends step of selectCompany is rejected: its first request to
\* fail settles
YearsOrTrendsFails(call, k) ==
  /\ Verdict(call, k, "fail") = "rejected"
  /\ \E years \in Orderings(ServerYearSet(call.company)) :
       selectCompanySettles(call, k, "fail", years)

\* a request of a years/trends step settles after its sibling has failed
AfterSiblingFailed(call, k) ==
  /\ ~call.alive
  /\ \E o \in {"ok", "fail"}, years \in Orderings(ServerYearSet(call.company)) :
       selectCompanySettles(call, k, o, years)

\* C13: when listYears or getTrends of selectCompany fails the step sets a
\* non-null error and isLoading = false, writes neither selectedYear nor
\* availableYears (null and empty when no other operation was started), and
\* neither then nor when the sibling request settles issues a request
C13_FailureAbortsCascade ==
  [][\A call \in InFlight, k \in 1..2 :
       /\ YearsOrTrendsFails(call, k) =>
            /\ state'.error # NoError
            /\ ~state'.isLoading
            /\ state'.selectedYear = state.selectedYear
            /\ state'.availableYears = state.availableYears
            /\ (Started = 1 =>
                  state'.selectedYear = NoYear /\ state'.availableYears = <<>>)
            /\ resume' = NoResume
            /\ \A other \in BagToSet(calls') : ~Issues(other)
       /\ AfterSiblingFailed(call, k) =>
            /\ state' = state
            /\ resume' = NoResume
            /\ \A other \in BagToSet(calls') : ~Issues(other)]_vars

\* getTrends of the only selectCompany call has failed and listYears, which
\* holds years, has settled after it: no year is selected, nothing is in flight
C13_Witness ==
  /\ Started = 1
  /\ issued.selectCompany = 1
  /\ state.selectedCompany = "A"
  /\ state.error = "Failed to fetch trends"
  /\ ~state.isLoading
  /\ state.selectedYear = NoYear
  /\ state.availableYears = <<>>
  /\ calls = EmptyBag

\* C14: in every Store state isDataLoaded is true exactly when the companies
\* list is non-empty
C14_LoadedIffCompanies == state.isDataLoaded = (Len(state.companies) > 0)

\* loadCompanies has succeeded against a service that holds no company
C14_Witness ==
  /\ issued.loadCompanies = 1
  /\ calls = EmptyBag
  /\ state.error = NoError
  /\ server = "empty"
  /\ ~state.isDataLoaded

\* a company-list request of loadCompanies fails
LoadCompaniesFails(call) ==
  call.op = "loadCompanies" /\ loadCompaniesSettles(call, "fail")

\* C15: a failed loadCompanies sets error to 'Failed to load companies' and
\* isLoading to false; neither its first patch nor its catch block changes
\* any other field of the Store
C15_FailureKeepsData ==
  [][/\ issued'.loadCompanies # issued.loadCompanies =>
          state' = [state EXCEPT !.isLoading = TRUE, !.error = NoError]
     /\ \A call \in InFlight :
          LoadCompaniesFails(call) =>
            state' = [state EXCEPT !.error = "Failed to load companies",
                                   !.isLoading = FALSE]]_vars

\* loadCompanies has failed on a Store that holds the data of a selection
C15_Witness ==
  /\ state.error = "Failed to load companies"
  /\ ~state.isLoading
  /\ state.isDataLoaded
  /\ state.companies = ServerCompanies
  /\ state.selectedCompany = "A"
  /\ state.financialData = ServerFinancialData("A", 2022)
  /\ calls = EmptyBag

\* the timers of a kind pending in the closure of a flow
TimersOf(kind, id) == {u \in timers : u.kind = kind /\ u.id = id}

\* the event with completed = true is the next one of the stream of the flow
FinalEventNext(id) ==
  /\ flow[id].eventSource = "open"
  /\ flow[id].sent = Len(ProgressValues) - 1
  /\ flow[id].sent' = Len(ProgressValues)

\* C16: the event with completed = true completes the flow once: its
\* progress is the progress held, the completion message is set, the
\* EventSource is closed in the same step, and a closed EventSource
\* dispatches nothing more, so that no second completion and no polling follow
C16_StreamCompletesOnce ==
  /\ [](\A id \in Flows :
         flow[id].sent = Len(ProgressValues) =>
           /\ flow[id].eventSource = "closed"
           /\ flow[id].completions = 1
           /\ TimersOf("checkInterval", id) = {} /\ TimersOf("timeout", id) = {})
  /\ [][\A id \in Flows :
          /\ FinalEventNext(id) =>
               /\ fu'.progress = ProgressValues[Len(ProgressValues)]
               /\ fu'.message = MsgUploaded
               /\ fu'.isUploading = fu.isUploading
               /\ flow'[id].eventSource = "closed"
               /\ flow'[id].completions = flow[id].completions + 1
          /\ flow[id].eventSource = "closed" =>
               /\ flow'[id].eventSource = "closed"
               /\ flow'[id].sent = flow[id].sent
               /\ flow'[id].malformed = flow[id].malformed]_vars

\* the stream has delivered its four well-formed events: the flow is
\* completed, the last progress is held and the reset timer is pending
C16_Witness ==
  /\ flow[1].sent = Len(ProgressValues)
  /\ flow[1].malformed = 0
  /\ flow[1].completions = 1
  /\ flow[1].eventSource = "closed"
  /\ fu.isUploading
  /\ fu.progress = 100
  /\ fu.message = MsgUploaded
  /\ Timer("reset", 1, ResetDelay) \in timers

\* a poll of the flow observes a non-empty company list while the timeout
\* timer of the flow is pending
PollObservesCompanies(id) ==
  /\ TimersOf("timeout", id) # {}
  /\ Len(getCompanies) > 0
  /\ pollSettles(id, "ok")

\* C17: an error of a connecting or open stream sets no message and leaves
\* isUploading and the Store alone, closes the stream and arms the 3s poll
\* interval; a poll that observes a non-empty company list before the timeout
\* completes the flow with progress = 100
C17_ErrorDegradesToPolling ==
  [][\A id \in Flows :
       /\ eventSource_onerror(id) =>
            /\ fu'.message = fu.message
            /\ fu'.isUploading = fu.isUploading
            /\ fu'.progress = fu.progress
            /\ state' = state
            /\ flow'[id].eventSource = "closed"
            /\ Timer("checkInterval", id, PollInterval) \in timers'
       /\ PollObservesCompanies(id) =>
            /\ fu'.progress = 100
            /\ fu'.message = MsgPolled
            /\ fu'.isUploading = fu.isUploading
            /\ flow'[id].completions = flow[id].completions + 1]_vars

\* the stream failed while open, and the second poll has observed the
\* company list with the timeout still pending
C17_Witness ==
  /\ flow[1].eventSource = "closed"
  /\ flow[1].sent = 2
  /\ flow[1].polled = 2
  /\ flow[1].completions = 1
  /\ fu.isUploading
  /\ fu.progress = 100
  /\ fu.message = MsgPolled
  /\ TimersOf("timeout", 1) # {}

\* the time since onerror set up the polling of a flow whose timeout timer t
\* is pending
SincePollingStarted(t) == PollTimeout - t.left

\* C18: while no poll has observed a company list, the polls of a flow are
\* issued at the multiples of 3s since polling started; the timeout callback
\* runs 120s after it, after 39 or 40 polls, sets the timeout message and
\* isUploading = false and clears the interval; an interval is never pending
\* without its timeout, so no poll is issued afterwards
C18_PollingTimesOut ==
  /\ [](\A id \in Flows :
         /\ flow[id].polled <= PollTimeout \div PollInterval
         /\ TimersOf("checkInterval", id) # {} => TimersOf("timeout", id) # {}
         /\ \A i \in TimersOf("checkInterval", id), t \in TimersOf("timeout", id) :
              SincePollingStarted(t) = flow[id].polled * PollInterval
                                         + (PollInterval - i.left))
  /\ [][\A t \in timers :
          (timeout_fires(t) /\ flow[t.id].completions = 0) =>
            /\ fu'.message = MsgTimeout
            /\ ~fu'.isUploading
            /\ flow[t.id].polled >= (PollTimeout \div PollInterval) - 1
            /\ TimersOf("checkInterval", t.id)' = {}
            /\ TimersOf("timeout", t.id)' = {}]_vars

\* forty polls were issued, none observed a company list, and the timeout
\* callback has run
C18_Witness ==
  /\ flow[1].polled = 40
  /\ flow[1].completions = 0
  /\ fu.message = MsgTimeout
  /\ ~fu.isUploading
  /\ timers = {}

\* C19 (as stated): the timeout callback does not run for a flow that a poll
\* has completed: such a flow is never reported as timed out
C19_Original ==
  [][\A t \in timers :
       (flow[t.id].completions > 0 /\ fu.message = MsgPolled /\ timeout_fires(t))
       => fu'.message = MsgPolled]_vars

\* C20 (as stated): a payload that does not parse is dropped: the stream
\* stays open, progress, status, isUploading and message are unchanged
C20_Original ==
  [][\A id \in Flows :
       eventSource_onmessage(id, MalformedEvent) =>
         /\ flow'[id].eventSource = "open"
         /\ fu' = fu]_vars

\* C21 (as stated): the progress held by the upload component is within
\* [0,100] in every state; an event whose progress is outside is dropped
C21_Original == fu.progress \in 0..100

\* the messages that report a flow as failed
FailureMessages == {MsgParseError, MsgTimeout, MsgUploadFailed, MsgUploadError}

\* no other upload flow has been started
OnlyFlow(id) == \A j \in Flows \ {id} : flow[j].post = "none"

\* every timer pending in the closure of a flow
AllTimersOf(id) == {u \in timers : u.id = id}

\* C22: an ingestion call accepted without a session_id ends the flow with
\* the 'progress tracking unavailable' message and isUploading = false; the
\* flow has no EventSource, no timer and no poll, and is never reported failed
C22_NoSessionCompletes ==
  /\ [](\A id \in Flows :
         flow[id].post = "nosession" =>
           /\ flow[id].eventSource = "none"
           /\ AllTimersOf(id) = {}
           /\ flow[id].polls = 0 /\ flow[id].polled = 0
           /\ OnlyFlow(id) =>
                ~fu.isUploading /\ fu.message \notin FailureMessages)
  /\ [][\A id \in Flows :
          uploadSettles(id, "nosession") =>
            /\ fu'.message = MsgNoTracking
            /\ ~fu'.isUploading
            /\ timers' = timers
            /\ state' = state /\ calls' = calls]_vars

\* the ingestion call was accepted without a session_id and the service has
\* finished processing: the flow is over and reports no tracking
C22_Witness ==
  /\ flow[1].post = "nosession"
  /\ server = "loaded"
  /\ state.companies = <<>>
  /\ fu.message = MsgNoTracking
  /\ ~fu.isUploading
  /\ timers = {}

\* the EventSource of a flow is connecting or open
StreamLive(id) == flow[id].eventSource \in {"connecting", "open"}

\* C23 (as stated): when the component is unmounted the stream is closed and
\* the timers are cancelled, and afterwards no callback of a flow runs: no
\* stream event, poll or timer is handled and loadCompanies is not called
C23_Original ==
  [][/\ (fu.mounted /\ ~fu'.mounted) =>
          /\ \A id \in Flows : ~StreamLive(id)'
          /\ timers' = {}
     /\ ~fu.mounted =>
          /\ flow' = flow
          /\ timers' = timers
          /\ \A c \in BagToSet(calls') : ~Issues(c)]_vars

\* C24: the EventSource of a flow is not connecting or open once the flow
\* has completed, has failed (ingestion refused, payload not parsed), has
\* ended without tracking, or has a poll, timeout or reset timer pending;
\* and an EventSource that is closed is not opened again
C24_HandleNotLeaked ==
  /\ [](\A id \in Flows :
         (\/ flow[id].completions > 0
          \/ flow[id].malformed > 0
          \/ AllTimersOf(id) # {}
          \/ flow[id].post \in {"nosession", "refused", "threw"})
         => ~StreamLive(id))
  /\ [][\A id \in Flows :
          flow[id].eventSource = "closed" => flow'[id].eventSource = "closed"]_vars

\* the stream failed after its first event and the flow is polling: three
\* polls issued, none has found a company, the EventSource is closed
C24_Witness ==
  /\ flow[1].eventSource = "closed"
  /\ flow[1].sent = 1
  /\ flow[1].polled = 3
  /\ flow[1].completions = 0
  /\ TimersOf("checkInterval", 1) # {}
  /\ fu.isUploading

\* C25 (as stated, as the property of states that a finite run refutes): the
\* 120s bound covers the whole tracked flow: whenever the stream of a flow is
\* connecting or open its timeout timer is pending, so that a stream that
\* goes silent cannot keep the flow uploading forever
C25_Original ==
  \A id \in Flows : StreamLive(id) => TimersOf("timeout", id) # {}

\* C26 (as stated): the step that handles the completed event does not
\* trigger loadCompanies; the refresh waits for the settle delay
C26_Original ==
  [][\A id \in Flows :
       FinalEventNext(id) => \A c \in BagToSet(calls') : ~Issues(c)]_vars

\* C26 (amended): the step that handles the completed event calls
\* loadCompanies itself and schedules the reset 2s later; the final progress
\* and isUploading stay held while that timer is pending, and the reset
\* callback sets isUploading = false and progress = 0
C26_RefreshAtCompletion ==
  /\ [](\A id \in Flows :
         (/\ flow[id].sent = Len(ProgressValues)
          /\ TimersOf("reset", id) # {}
          /\ OnlyFlow(id))
         => /\ fu.progress = ProgressValues[Len(ProgressValues)]
            /\ fu.isUploading)
  /\ [][/\ \A id \in Flows :
            FinalEventNext(id) =>
              /\ Enters(Call("loadCompanies", NoCompany, NoYear, <<"pending">>))
              /\ state'.isLoading
              /\ Timer("reset", id, ResetDelay) \in timers'
              /\ fu'.progress = ProgressValues[Len(ProgressValues)]
              /\ fu'.isUploading = fu.isUploading
        /\ \A t \in timers :
            reset_fires(t) => ~fu'.isUploading /\ fu'.progress = 0]_vars

\* the refresh triggered by the completed event has already brought the
\* company list while the reset timer is pending and the progress is held
C26_Witness ==
  /\ flow[1].sent = Len(ProgressValues)
  /\ Timer("reset", 1, ResetDelay) \in timers
  /\ calls = EmptyBag
  /\ state.companies = ServerCompanies
  /\ ~state.isLoading
  /\ fu.progress = 100
  /\ fu.isUploading

\* C27 (as stated): while the stream of an upload is connecting or open, or
\* its polling interval is pending, the Store's isLoading is true
C27_Original ==
  \A id \in Flows :
    (StreamLive(id) \/ TimersOf("checkInterval", id) # {}) => state.isLoading

\* C28 (as stated, its refresh): when the ingestion call of uploadFile settles
\* with a warning, the upload is treated as a success: the loadCompanies
\* call that follows a response without a warning is issued as well
C28_Original ==
  [][\A call \in InFlight, ingested \in BOOLEAN :
       uploadFileSettles(call, "warning", ingested) =>
         Enters(Call("loadCompanies", NoCompany, NoYear, <<"pending">>))]_vars

\* C29 (as stated, for handleUpload): when the ingestion call of handleUpload
\* is refused or throws, the Store's error slot holds a failure message,
\* isLoading is false and no company-list request is issued
C29_Original ==
  [][\A id \in Flows, o \in {"refused", "threw"} :
       uploadSettles(id, o) =>
         /\ state'.error # NoError
         /\ ~state'.isLoading
         /\ calls' = calls]_vars

\* C30 (as stated): on a status that is neither 2xx nor 202 on upload, an
\* operation fails with an error whose message is the error field of the
\* body when the body parses and has a non-empty one, and the fallback
\* message of the operation otherwise
C30_Original ==
  (http.result # Unsettled /\ ~TakenAsSuccess(http.op, http.status)) =>
    /\ http.result.kind = "throws"
    /\ http.result.message =
         IF response_json(http.body) /\ ErrorField(http.body) \notin {"", Undefined}
           THEN ErrorField(http.body)
           ELSE FallbackMessage(http.op)

\* C33 (as stated, its second half): the failure of a selectCompany step that
\* a newer selection has superseded does not write the error slot
C33_Original ==
  [][\A call \in InFlight, k \in 1..2 :
       (/\ call.op = "selectCompany"
        /\ state.selectedCompany # call.company
        /\ Verdict(call, k, "fail") = "rejected"
        /\ \E years \in Orderings(ServerYearSet(call.company)) :
             selectCompanySettles(call, k, "fail", years))
       => state'.error = state.error]_vars

\* the timeout callback of the flow has run before any poll observed a
\* company list
TimedOut(id) ==
  /\ flow[id].polled > 0
  /\ TimersOf("timeout", id) = {}
  /\ flow[id].completions = 0

\* C34 (as stated): once a flow has failed by timeout, a poll that was in
\* flight when the timeout fired does not, on resolving, set the progress or
\* the message, and does not call loadCompanies
C34_Original ==
  [][\A id \in Flows :
       (TimedOut(id) /\ pollSettles(id, "ok")) =>
         /\ fu'.progress = fu.progress
         /\ fu'.message = fu.message
         /\ calls' = calls]_vars

\* C35 (as stated): the completion of a flow is handled at most once, so
\* that loadCompanies is called once and one reset timer is set, also when
\* several polls are in flight together
C35_Original ==
  \A id \in Flows : flow[id].completions <= 1

\* a request issued by a user operation is outstanding
UserRequestOutstanding ==
  \E call \in InFlight : call.op # "checkForData" /\ Outstanding(call)

\* C37: in every state in which no request of loadCompanies, selectCompany
\* (its cascade included), selectYear or uploadFile is outstanding and no
\* function is between two of its patches, isLoading is false
C37_QuiescentNotLoading ==
  (Settled /\ ~UserRequestOutstanding) => ~state.isLoading

\* three operations have overlapped, the last failure has been reported and
\* everything has settled
C37_Witness ==
  /\ calls = EmptyBag
  /\ resume = NoResume
  /\ issued.selectCompany = 1
  /\ issued.selectYear = 1
  /\ issued.uploadFile = 1
  /\ state.error = "Failed to load year data"
  /\ state.selectedYear # NoYear
  /\ ~state.isLoading

C39_Original ==
  state.selectedCompany = NoCompany \/ state.selectedCompany \in Range(state.companies)

\* the flow is neither completed nor failed: its stream is connecting or
\* open, or its polling interval is pending
NonTerminal(id) == StreamLive(id) \/ TimersOf("checkInterval", id) # {}

\* C36 (as stated): while a flow is not terminal isUploading is true, and
\* the reset timer or the timeout timer of an earlier flow, when it fires,
\* changes neither isUploading nor the progress nor the message of a later
\* flow that is not terminal
C36_Original ==
  /\ [](\A id \in Flows : NonTerminal(id) => fu.isUploading)
  /\ [][\A t \in timers, id \in Flows :
         (/\ t.id < id
          /\ NonTerminal(id)
          /\ reset_fires(t) \/ timeout_fires(t))
         => /\ fu'.isUploading = fu.isUploading
            /\ fu'.progress = fu.progress
            /\ fu'.message = fu.message]_vars

\* C31 (as stated, for search): when the search request of handleSend fails,
\* the Store's error slot is non-null and isLoading is false
C31_Original ==
  [][\A s \in cb.searches :
       searchSettles(s, "fail") => state'.error # NoError /\ ~state'.isLoading]_vars

\* C32: handleUpload called with no file chosen sets the 'select a file'
\* message and starts no flow, no timer and no request; handleSend called
\* with an input that is empty once trimmed changes nothing and sends no
\* search request, so that every search request carries a non-empty query
C32_ValidationBeforeNetwork ==
  /\ [](\A s \in cb.searches : s.query # <<>>)
  /\ [][/\ (fu.files = 0 /\ handleUpload) =>
            /\ flow' = flow
            /\ timers' = timers
            /\ calls' = calls
            /\ fu' = [fu EXCEPT !.message = MsgNoFile]
        /\ (trim(cb.input) = <<>> /\ handleSend) =>
            /\ cb' = cb
            /\ calls' = calls]_vars

\* Upload has been clicked with no file chosen and the question typed is
\* blank: no flow has been started and no search request has been sent
C32_Witness ==
  /\ fu.files = 0
  /\ fu.message = MsgNoFile
  /\ \A id \in Flows : flow[id] = NoFlow
  /\ cb.input = <<" ", " ">>
  /\ cb.sent = 0
  /\ cb.searches = {}
  /\ ~cb.isSearching

====
